---- MODULE Spec2Model ----
(***************************************************************************)
(* The concurrent game-state engine of gameshow-api (src/src/main.rs).      *)
(*                                                                         *)
(* The shared store is GameshowData: four tokio RwLocks (player_data,       *)
(* questions, game_events, current_question_state) and one AtomicUsize      *)
(* (current_question).  Every HTTP handler is a request executed by a       *)
(* thread of the server; a request advances in steps, one step per `.await` *)
(* of a lock (the acquisition and the code that follows it up to the next   *)
(* `.await`, guard drops included) or per access of the atomic that is made *)
(* outside every lock.                                                      *)
(*                                                                         *)
(* Strings that the code inspects character by character (player names,     *)
(* which join_player trims) are sequences of one-character strings.         *)
(***************************************************************************)
EXTENDS Integers, Sequences, FiniteSets, TLC

VARIABLES
    player_data,             \* GameshowData.player_data: Vec<PlayerData>
    questions,               \* GameshowData.questions: Vec<Question>
    game_events,             \* GameshowData.game_events: Vec<Event>
    current_question,        \* GameshowData.current_question: AtomicUsize
    current_question_state,  \* GameshowData.current_question_state: QuestionState
    wr,                      \* per lock: the thread holding its write guard, 0 if none
    rd,                      \* per lock: the threads holding a read guard
    pc,                      \* per thread: where its request stands
    req,                     \* per thread: the request being served (handler, parameters)
    loc,                     \* per thread: the handler's local variables
    gh,                      \* per thread: bookkeeping of the request in flight
    last,                    \* the request completed by the latest step, if any
    jumped,                  \* the latest successful setNextQuestion not yet followed
                             \* by an event: its target, and whether
                             \* activateNextQuestion succeeded since
    acq                      \* the lock acquired by the latest step, if any, and the
                             \* locks its thread was holding when it asked for it

store == <<player_data, questions, game_events, current_question, current_question_state>>
vars == <<player_data, questions, game_events, current_question, current_question_state,
          wr, rd, pc, req, loc, gh, last, jumped, acq>>

(***************************************************************************)
(* Program constants (fallback standards, main.rs 15-18).                   *)
(***************************************************************************)
INITIAL_MONEY == 500
INITIAL_JOKERS == 3
NORMAL_Q_MONEY == 500
ESTIMATION_Q_MONEY == 1000

(***************************************************************************)
(* Bounds of the model.                                                     *)
(***************************************************************************)
NumThreads == 2     \* requests in flight at the same time
MaxPlayers == 2     \* join_player adds no player once the roster is this long
MaxPlayersVersus == 3  \* the same, in SpecVersus and SpecEstimation
MaxEvents == 4      \* no advancement is started once the log is this long
MaxEventsFail == 2  \* the same, in SpecFail, SpecEstimation and SpecNormal
MaxEventsLocks == 3 \* the same, in SpecLocks, SpecVersus and SpecAdmin
MaxEventsModerator == 10  \* the same, in SpecModerator
MoneyFloor == 100   \* give_money is not issued when it would leave less than -MoneyFloor
MoneyCeil == 1000   \* give_money is not issued when it would leave more than MoneyCeil

Threads == 1 .. NumThreads
Locks == {"state", "questions", "players", "events"}

(***************************************************************************)
(* QuestionState (main.rs 132-143): a tag and the ready flag; GameEnding    *)
(* carries no flag.                                                         *)
(***************************************************************************)
Results(b) == <<"Results", b>>
NormalQAnswering(b) == <<"NormalQAnswering", b>>
BettingQBetting(b) == <<"BettingQBetting", b>>
BettingQAnswering(b) == <<"BettingQAnswering", b>>
EstimationQAnswering(b) == <<"EstimationQAnswering", b>>
VersusQSelecting(b) == <<"VersusQSelecting", b>>
VersusQAnswering(b) == <<"VersusQAnswering", b>>
GameEnding == <<"GameEnding">>

IsReady(s) == Len(s) = 2 /\ s[2] = TRUE
AnsweringTags == {"NormalQAnswering", "BettingQAnswering", "EstimationQAnswering",
                  "VersusQAnswering"}

(***************************************************************************)
(* Strings.  A character is its Unicode scalar value (65 is 'A', 32 the     *)
(* space, 9 the tab); a name is a sequence of characters; "" is <<>>.       *)
(***************************************************************************)
EmptyString == <<>>

\* char::is_whitespace: the characters of the Unicode property White_Space
White_Space ==
    (9..13) \cup {32, 133, 160, 5760} \cup (8192..8202)
        \cup {8232, 8233, 8239, 8287, 12288}

IsWhitespace(c) == c \in White_Space

RECURSIVE TrimStart(_)
TrimStart(s) ==
    IF s = <<>> THEN s
    ELSE IF IsWhitespace(Head(s)) THEN TrimStart(Tail(s)) ELSE s

RECURSIVE TrimEnd(_)
TrimEnd(s) ==
    IF s = <<>> THEN s
    ELSE IF IsWhitespace(s[Len(s)]) THEN TrimEnd(SubSeq(s, 1, Len(s) - 1)) ELSE s

\* str::trim
trim(s) == TrimEnd(TrimStart(s))

(***************************************************************************)
(* Sequence helpers for the loops over Vec<PlayerData>.                     *)
(***************************************************************************)
Indices(seq) == 1 .. Len(seq)

\* index of the first element with this name, 0 if none (a loop with `break`)
FirstIndex(players, name) ==
    IF \E i \in Indices(players) : players[i].name = name
    THEN CHOOSE i \in Indices(players) :
            /\ players[i].name = name
            /\ \A j \in 1 .. (i - 1) : players[j].name # name
    ELSE 0

\* Vec::retain
RECURSIVE Retain(_, _)
Retain(players, name) ==
    IF players = <<>> THEN <<>>
    ELSE IF Head(players).name # name
         THEN <<Head(players)>> \o Retain(Tail(players), name)
         ELSE Retain(Tail(players), name)

RECURSIVE Pow2(_)
Pow2(n) == IF n <= 0 THEN 1 ELSE 2 * Pow2(n - 1)

\* integer division truncating toward zero (f64 product cast `as i64`)
TruncDiv(a, b) == IF a >= 0 THEN a \div b ELSE -((-a) \div b)

Abs(x) == IF x >= 0 THEN x ELSE -x

(***************************************************************************)
(* PlayerData and Event constructors.                                       *)
(***************************************************************************)
NewPlayer(name) ==
    [name |-> name, jokers |-> INITIAL_JOKERS, money |-> INITIAL_MONEY,
     money_bet |-> 0, vs_player |-> EmptyString, answer |-> 0]

\* faulty variant: the id of the last event is reused
NextEventIdStale(events) ==
    IF events = <<>> THEN 0 ELSE events[Len(events)].id

\* event_id = last.id + 1, or 0 for an empty log (lines 184-189)
NextEventId(events) ==
    IF events = <<>> THEN 0 ELSE events[Len(events)].id + 1

NewEvent(events, name, payload) ==
    [id |-> NextEventId(events), event_name |-> name, event |-> payload]

(***************************************************************************)
(* Scoring (the four *QAnswering(true) arms of check_state_add_events).     *)
(***************************************************************************)
\* faulty variant: every player who gave an answer is rewarded
NormalScoreAnswered(players, correct_answer) ==
    [i \in Indices(players) |->
        IF players[i].answer # 0
        THEN [players[i] EXCEPT !.money = @ + NORMAL_Q_MONEY]
        ELSE players[i]]

\* lines 309-316
NormalScore(players, correct_answer) ==
    [i \in Indices(players) |->
        IF players[i].answer = correct_answer
        THEN [players[i] EXCEPT !.money = @ + NORMAL_Q_MONEY]
        ELSE players[i]]

BettingScore(players, correct_answer) ==
    [i \in Indices(players) |->
        IF players[i].answer = correct_answer
        THEN [players[i] EXCEPT !.money = @ + players[i].money_bet]
        ELSE LET m == players[i].money - players[i].money_bet
             IN  [players[i] EXCEPT !.money = IF m = 0 THEN 1 ELSE m]]

EstimationDiff(p, correct_answer) ==
    IF p.answer >= correct_answer THEN p.answer - correct_answer
    ELSE correct_answer - p.answer

\* Faulty variant of ClosestPlayers: only players who gave an answer compete.
ClosestPlayersAnswered(players, correct_answer) ==
    {players[i].name : i \in
        {k \in Indices(players) :
            /\ players[k].answer >= 1
            /\ \A j \in Indices(players) :
                  players[j].answer >= 1
                  => EstimationDiff(players[k], correct_answer)
                        <= EstimationDiff(players[j], correct_answer)}}

\* names of the players at minimal distance (closest_players)
ClosestPlayers(players, correct_answer) ==
    {players[i].name : i \in
        {k \in Indices(players) :
            \A j \in Indices(players) :
                EstimationDiff(players[k], correct_answer)
                    <= EstimationDiff(players[j], correct_answer)}}

EstimationScore(players, correct_answer) ==
    [i \in Indices(players) |->
        IF players[i].name \in ClosestPlayers(players, correct_answer)
        THEN [players[i] EXCEPT !.money = @ + ESTIMATION_Q_MONEY]
        ELSE players[i]]

\* exponent of 2 in player_factors[j]: +1 per selector of j with a wrong
\* answer, -1 per selector with the correct one; a selection hits the first
\* player carrying the selected name
VersusExponent(players, correct_answer, j) ==
    LET sel == {i \in Indices(players) :
                    /\ players[i].vs_player # EmptyString
                    /\ FirstIndex(players, players[i].vs_player) = j}
    IN  Cardinality({i \in sel : players[i].answer # correct_answer})
        - Cardinality({i \in sel : players[i].answer = correct_answer})

VersusMoney(money, e) ==
    LET m == IF e >= 0 THEN money * Pow2(e) ELSE TruncDiv(money, Pow2(-e))
    IN  IF m = 0 THEN 1 ELSE m

VersusScore(players, correct_answer) ==
    [i \in Indices(players) |->
        [players[i] EXCEPT
            !.money = VersusMoney(@, VersusExponent(players, correct_answer, i))]]

\* Faulty variant of ResetPlayers: the bet is carried into the next question.
ResetPlayersKeepBet(players) ==
    [i \in Indices(players) |->
        [players[i] EXCEPT !.vs_player = EmptyString, !.answer = 0]]

\* reset bets and question answers for all players
ResetPlayers(players) ==
    [i \in Indices(players) |->
        [players[i] EXCEPT !.money_bet = 0, !.vs_player = EmptyString, !.answer = 0]]

(***************************************************************************)
(* Questions.  A Question is a record (main.rs 44-52); the question files   *)
(* under ./Questions/ are the environment of the program: read_questions    *)
(* either yields the list a file holds or fails.                            *)
(***************************************************************************)
FourAnswers == <<"a1", "a2", "a3", "a4">>

Q(type, category, question, correct_answer) ==
    [question_type |-> type, category |-> category, question |-> question,
     answers |-> FourAnswers, correct_answer |-> correct_answer]

QNormal == Q("NormalQuestion", "catN", "promptN", 2)
QBetting == Q("BettingQuestion", "catB", "promptB", 2)
QEstimation == Q("EstimationQuestion", "catE", "promptE", 50)
QVersus == Q("VersusQuestion", "catV", "promptV", 1)

QuestionFile(filename) ==
    CASE filename = "betting.json" -> <<QBetting>>
      [] filename = "normal.json" -> <<QNormal>>
      [] filename = "versus.json" -> <<QVersus>>
      [] filename = "estimation.json" -> <<QEstimation>>
      [] filename = "normal-betting.json" -> <<QNormal, QBetting>>
      [] filename = "betting-normal.json" -> <<QBetting, QNormal>>
      [] filename = "all-types.json" -> <<QNormal, QBetting, QEstimation, QVersus>>
      [] filename = "normal-betting-versus.json" -> <<QNormal, QBetting, QVersus>>
      [] filename = "betting-versus.json" -> <<QBetting, QVersus>>
      [] filename = "empty.json" -> <<>>

ReadableFiles == {"betting.json", "normal.json", "versus.json", "estimation.json",
                  "normal-betting.json", "betting-normal.json", "all-types.json",
                  "normal-betting-versus.json", "betting-versus.json",
                  "empty.json"}

\* std::io::Result<Vec<Question>>
read_questions(filename) ==
    IF filename \in ReadableFiles
    THEN [is_err |-> FALSE, questions |-> QuestionFile(filename)]
    ELSE [is_err |-> TRUE, questions |-> <<>>]

(***************************************************************************)
(* Locks (tokio::sync::RwLock): a write guard excludes every other guard,   *)
(* read guards share.                                                       *)
(***************************************************************************)
CanRead(l) == wr[l] = 0
CanWrite(l) == wr[l] = 0 /\ rd[l] = {}

\* the locks of which thread t holds a guard
Held(t) == {l \in Locks : wr[l] = t \/ t \in rd[l]}

NoAcq == [lock |-> "none", held |-> {}]

\* `.read().await` and `.write().await`: the step is taken once the lock can be
\* granted
ReadLock(t, l) == CanRead(l) /\ acq' = [lock |-> l, held |-> Held(t)]
WriteLock(t, l) == CanWrite(l) /\ acq' = [lock |-> l, held |-> Held(t)]

AcquireWrite(t, l, w) == [w EXCEPT ![l] = t]
AcquireRead(t, l, r) == [r EXCEPT ![l] = @ \cup {t}]
\* every guard of thread t dropped (end of the handler, or unwinding)
DropAllWrite(t) == [l \in Locks |-> IF wr[l] = t THEN 0 ELSE wr[l]]
DropAllRead(t) == [l \in Locks |-> rd[l] \ {t}]

(***************************************************************************)
(* Requests.  A thread is idle or inside one handler; `last` keeps the      *)
(* request that the latest step completed, with its response, until the     *)
(* next step of any thread.                                                 *)
(***************************************************************************)
NoRequest == [op |-> "none"]
NoLocals == [none |-> TRUE]
NoLast == [t |-> 0]
GhIdle == [dirty |-> FALSE, state0 |-> <<>>, second |-> "no"]
NoJump == [number |-> 0, activated |-> FALSE]

Starting(t) == pc[t] = "idle"

\* did the request of t change the store, this step included
GDirty(t) == (IF Starting(t) THEN FALSE ELSE gh[t].dirty) \/ store' # store
\* the question state at the request's first step
GState0(t) == IF Starting(t) THEN current_question_state ELSE gh[t].state0
\* whether the request is a poll issued right after a poll of the same thread
\* completed, no thread having taken a step since, and what that poll did
GSecond(t, r) ==
    IF Starting(t)
    THEN IF last.t = t /\ last.req.op = "get_game_events" /\ r.op = "get_game_events"
         THEN IF last.dirty THEN "after_advancing_poll" ELSE "after_idle_poll"
         ELSE "no"
    ELSE gh[t].second

\* the handler returns: HttpResponse with this status and body
Done(t, r, status, body) ==
    /\ pc' = [pc EXCEPT ![t] = "idle"]
    /\ req' = [req EXCEPT ![t] = NoRequest]
    /\ loc' = [loc EXCEPT ![t] = NoLocals]
    /\ gh' = [u \in Threads |-> IF u = t THEN GhIdle ELSE [gh[u] EXCEPT !.second = "no"]]
    /\ last' = [t |-> t, req |-> r, status |-> status, body |-> body,
                dirty |-> GDirty(t), state0 |-> GState0(t), second |-> GSecond(t, r)]

\* the handler goes on to its next `.await`
Continue(t, r, label, locals) ==
    /\ pc' = [pc EXCEPT ![t] = label]
    /\ req' = [req EXCEPT ![t] = r]
    /\ loc' = [loc EXCEPT ![t] = locals]
    /\ gh' = [u \in Threads |->
                IF u = t
                THEN [dirty |-> GDirty(t), state0 |-> GState0(t), second |-> GSecond(t, r)]
                ELSE [gh[u] EXCEPT !.second = "no"]]
    /\ last' = NoLast

\* a step that holds no guard across it
NoGuardKept == UNCHANGED <<wr, rd>>

(***************************************************************************)
(* join_player (main.rs 494-514).                                           *)
(***************************************************************************)
\* the roster after the push of lines 504-511
JoinRoster(players, name) ==
    IF \A i \in Indices(players) : players[i].name # name
    THEN Append(players, NewPlayer(trim(name)))
    ELSE players

\* lines 497-513; no player is added once the roster holds cap players
JoinPlayer(t, Names, cap) ==
    \E n \in Names :
        LET r == [op |-> "join_player", name |-> n] IN
        /\ Starting(t)
        /\ IF trim(n) = EmptyString
           THEN /\ UNCHANGED <<store, jumped>>
                /\ NoGuardKept
                /\ acq' = NoAcq
                /\ Done(t, r, 400, "Empty name is not allowed!")
           ELSE /\ WriteLock(t, "players")
                /\ JoinRoster(player_data, n) # player_data => Len(player_data) < cap
                /\ player_data' = JoinRoster(player_data, n)
                /\ UNCHANGED <<questions, game_events, current_question,
                               current_question_state, jumped>>
                /\ NoGuardKept
                /\ Done(t, r, 200, trim(n))

join_player(t, Names) == JoinPlayer(t, Names, MaxPlayers)

(***************************************************************************)
(* bet_money (main.rs 533-592).                                             *)
(***************************************************************************)
\* faulty variant: bets are also taken while the question is answered
BetPhaseOkAnswering(s) == s \in {BettingQBetting(FALSE), BettingQAnswering(FALSE)}

\* line 539
BetPhaseOk(s) == s = BettingQBetting(FALSE)

\* lines 537-543: the state check under a read guard that is dropped at once
BetCheck(t, n, b) ==
    LET r == [op |-> "bet_money", name |-> n, money_bet |-> b] IN
    /\ Starting(t)
    /\ ReadLock(t, "state")
    /\ UNCHANGED <<store, jumped>>
    /\ NoGuardKept
    /\ IF ~BetPhaseOk(current_question_state)
       THEN Done(t, r, 406, "QuestionState is not Betting(false)!")
       ELSE Continue(t, r, "bet_write", NoLocals)

\* lines 546-570: the bet is validated and written under the players write guard
BetWrite(t) ==
    LET r == req[t]
        i == FirstIndex(player_data, r.name) IN
    /\ pc[t] = "bet_write"
    /\ WriteLock(t, "players")
    /\ NoGuardKept
    /\ UNCHANGED <<questions, game_events, current_question, current_question_state, jumped>>
    /\ IF i = 0
       THEN /\ UNCHANGED player_data
            /\ Done(t, r, 400, "Player name was not found!")
       ELSE IF r.money_bet < 1 \/ player_data[i].money < r.money_bet
       THEN /\ UNCHANGED player_data
            /\ Done(t, r, 400, "money_bet is invalid (< 1 or > player money)!")
       ELSE /\ player_data' = [player_data EXCEPT ![i].money_bet = r.money_bet]
            /\ Continue(t, r, "bet_scan", NoLocals)

\* faulty variant: the read guard of the scan is still held when the state
\* lock is asked for
ScanGuardKept(t, r) == AcquireRead(t, "players", r)

\* lines 574-584: the read guard of the scan lives in a block of its own and
\* is dropped at the end of that block
ScanGuard(t, r) == r

\* lines 572-584: the all-players scan under a players read guard
BetScan(t) ==
    LET all_bet == \A i \in Indices(player_data) : ~(player_data[i].money_bet < 1) IN
    /\ pc[t] = "bet_scan"
    /\ ReadLock(t, "players")
    /\ UNCHANGED <<store, jumped>>
    /\ IF all_bet
       THEN /\ wr' = wr
            /\ rd' = ScanGuard(t, rd)
            /\ Continue(t, req[t], "bet_flip", NoLocals)
       ELSE /\ NoGuardKept
            /\ Done(t, req[t], 200, "")

\* lines 585-591: the readiness flip under the state write guard
BetFlip(t) ==
    /\ pc[t] = "bet_flip"
    /\ WriteLock(t, "state")
    /\ wr' = DropAllWrite(t)
    /\ rd' = DropAllRead(t)
    /\ current_question_state' = BettingQBetting(TRUE)
    /\ UNCHANGED <<player_data, questions, game_events, current_question, jumped>>
    /\ Done(t, req[t], 200, "")

bet_money(t, Names, Bets) ==
    \/ \E n \in Names, b \in Bets : BetCheck(t, n, b)
    \/ BetWrite(t)
    \/ BetScan(t)
    \/ BetFlip(t)

(***************************************************************************)
(* attack_player (main.rs 601-660).                                         *)
(***************************************************************************)
\* lines 605-618: state check, then the name = vs_player test (no lock held)
AttackCheck(t, n, v) ==
    LET r == [op |-> "attack_player", name |-> n, vs_player |-> v] IN
    /\ Starting(t)
    /\ ReadLock(t, "state")
    /\ UNCHANGED <<store, jumped>>
    /\ NoGuardKept
    /\ IF current_question_state # VersusQSelecting(FALSE)
       THEN Done(t, r, 406, "QuestionState is not VersusQSelecting(false)!")
       ELSE IF n = v
       THEN Done(t, r, 400, "name and vs_player are equal!")
       ELSE Continue(t, r, "attack_write", NoLocals)

\* faulty variant: the selection is written before the selected player is
\* looked up
AttackWriteEarly(t) ==
    LET r == req[t]
        i == FirstIndex(player_data, r.name) IN
    /\ pc[t] = "attack_write"
    /\ WriteLock(t, "players")
    /\ NoGuardKept
    /\ UNCHANGED <<questions, game_events, current_question, current_question_state, jumped>>
    /\ IF i = 0
       THEN /\ UNCHANGED player_data
            /\ Done(t, r, 400, "Player name was not found!")
       ELSE /\ player_data' = [player_data EXCEPT ![i].vs_player = r.vs_player]
            /\ IF FirstIndex(player_data, r.vs_player) = 0
               THEN Done(t, r, 400, "Player vs_player was not found!")
               ELSE Continue(t, r, "attack_scan", NoLocals)

\* lines 620-638
AttackWrite(t) ==
    LET r == req[t]
        i == FirstIndex(player_data, r.name) IN
    /\ pc[t] = "attack_write"
    /\ WriteLock(t, "players")
    /\ NoGuardKept
    /\ UNCHANGED <<questions, game_events, current_question, current_question_state, jumped>>
    /\ IF i = 0
       THEN /\ UNCHANGED player_data
            /\ Done(t, r, 400, "Player name was not found!")
       ELSE IF FirstIndex(player_data, r.vs_player) = 0
       THEN /\ UNCHANGED player_data
            /\ Done(t, r, 400, "Player vs_player was not found!")
       ELSE /\ player_data' = [player_data EXCEPT ![i].vs_player = r.vs_player]
            /\ Continue(t, r, "attack_scan", NoLocals)

\* lines 640-652
AttackScan(t) ==
    LET all_selected == \A i \in Indices(player_data) :
                            ~(player_data[i].vs_player = EmptyString) IN
    /\ pc[t] = "attack_scan"
    /\ ReadLock(t, "players")
    /\ NoGuardKept
    /\ UNCHANGED <<store, jumped>>
    /\ IF all_selected
       THEN Continue(t, req[t], "attack_flip", NoLocals)
       ELSE Done(t, req[t], 200, "")

\* lines 653-659
AttackFlip(t) ==
    /\ pc[t] = "attack_flip"
    /\ WriteLock(t, "state")
    /\ NoGuardKept
    /\ current_question_state' = VersusQSelecting(TRUE)
    /\ UNCHANGED <<player_data, questions, game_events, current_question, jumped>>
    /\ Done(t, req[t], 200, "")

attack_player(t, Names, Targets) ==
    \/ \E n \in Names, v \in Targets : AttackCheck(t, n, v)
    \/ AttackWrite(t)
    \/ AttackScan(t)
    \/ AttackFlip(t)

(***************************************************************************)
(* answer_question (main.rs 669-735).                                       *)
(***************************************************************************)
\* lines 675-678
AnswerPhaseOk(s) ==
    s \in {NormalQAnswering(FALSE), BettingQAnswering(FALSE),
           EstimationQAnswering(FALSE), VersusQAnswering(FALSE)}

\* lines 673-689: state check, then the answer < 1 test (no lock held)
AnswerCheck(t, n, a) ==
    LET r == [op |-> "answer_question", name |-> n, answer |-> a] IN
    /\ Starting(t)
    /\ ReadLock(t, "state")
    /\ UNCHANGED <<store, jumped>>
    /\ NoGuardKept
    /\ IF ~AnswerPhaseOk(current_question_state)
       THEN Done(t, r, 406, "QuestionState is not *Answering(false)!")
       ELSE IF a < 1
       THEN Done(t, r, 400, "answer is invalid (< 1)!")
       ELSE Continue(t, r, "answer_write", NoLocals)

\* lines 691-705
AnswerWrite(t) ==
    LET r == req[t]
        i == FirstIndex(player_data, r.name) IN
    /\ pc[t] = "answer_write"
    /\ WriteLock(t, "players")
    /\ NoGuardKept
    /\ UNCHANGED <<questions, game_events, current_question, current_question_state, jumped>>
    /\ IF i = 0
       THEN /\ UNCHANGED player_data
            /\ Done(t, r, 400, "Player name was not found!")
       ELSE /\ player_data' = [player_data EXCEPT ![i].answer = r.answer]
            /\ Continue(t, r, "answer_scan", NoLocals)

\* Faulty variant of AllAnswered: one answer is enough.
AllAnsweredAny(players) == \E i \in Indices(players) : ~(players[i].answer < 1)

\* lines 709-719: the scan under the players read guard
AllAnswered(players) == \A i \in Indices(players) : ~(players[i].answer < 1)

\* lines 708-720
AnswerScan(t) ==
    LET all_answered == AllAnswered(player_data) IN
    /\ pc[t] = "answer_scan"
    /\ ReadLock(t, "players")
    /\ NoGuardKept
    /\ UNCHANGED <<store, jumped>>
    /\ IF all_answered
       THEN Continue(t, req[t], "answer_flip", NoLocals)
       ELSE Done(t, req[t], 200, "")

\* lines 724-731: the match on the state found under the write guard
AnswerFlipState(s) ==
    IF s[1] \in AnsweringTags THEN <<s[1], TRUE>> ELSE s

\* lines 721-734
AnswerFlip(t) ==
    /\ pc[t] = "answer_flip"
    /\ WriteLock(t, "state")
    /\ NoGuardKept
    /\ current_question_state' = AnswerFlipState(current_question_state)
    /\ UNCHANGED <<player_data, questions, game_events, current_question, jumped>>
    /\ Done(t, req[t], 200, "")

answer_question(t, Names, Answers) ==
    \/ \E n \in Names, a \in Answers : AnswerCheck(t, n, a)
    \/ AnswerWrite(t)
    \/ AnswerScan(t)
    \/ AnswerFlip(t)

(***************************************************************************)
(* get_joker_fifty_fifty (main.rs 743-787).                                 *)
(***************************************************************************)
\* lines 749-750
JokerPhaseOk(s) == s \in {NormalQAnswering(FALSE), BettingQAnswering(FALSE)}

\* a panic unwinds the handler: its guards are dropped, no response is sent
Panic(t, r) ==
    /\ wr' = DropAllWrite(t)
    /\ rd' = DropAllRead(t)
    /\ Done(t, r, 0, "panicked")

\* Faulty variant of ChooseFrom: the correct answer is not removed.
ChooseFromAll(correct_answer) == {1, 2, 3, 4}

\* vec![1, 2, 3, 4] after remove(correct_answer - 1)
ChooseFrom(correct_answer) == {1, 2, 3, 4} \ {correct_answer}

\* lines 747-754; checked_question is bookkeeping, not a local of the handler:
\* the index at the moment the phase check passed
JokerCheck(t, n) ==
    LET r == [op |-> "get_joker_fifty_fifty", name |-> n] IN
    /\ Starting(t)
    /\ ReadLock(t, "state")
    /\ UNCHANGED <<store, jumped>>
    /\ NoGuardKept
    /\ IF ~JokerPhaseOk(current_question_state)
       THEN Done(t, r, 406, "QuestionState is not BettingQAnswering(false)!")
       ELSE Continue(t, r, "joker_load", [checked_question |-> current_question])

\* line 760: the atomic is read outside every lock
JokerLoad(t) ==
    /\ pc[t] = "joker_load"
    /\ UNCHANGED <<store, jumped>>
    /\ NoGuardKept
    /\ acq' = NoAcq
    /\ Continue(t, req[t], "joker_questions", [current_question |-> current_question])

\* lines 761-766: the question is indexed and two wrong answers are drawn
JokerQuestions(t) ==
    LET cq == loc[t].current_question IN
    /\ pc[t] = "joker_questions"
    /\ ReadLock(t, "questions")
    /\ UNCHANGED <<store, jumped>>
    /\ IF cq < 1 \/ cq > Len(questions)
       THEN Panic(t, req[t])
       ELSE IF questions[cq].correct_answer \notin {1, 2, 3, 4}
       THEN Panic(t, req[t])
       ELSE /\ NoGuardKept
            /\ \E a \in ChooseFrom(questions[cq].correct_answer) :
               \E b \in ChooseFrom(questions[cq].correct_answer) \ {a} :
                  Continue(t, req[t], "joker_players", [wrong_answers |-> <<a, b>>])

\* lines 769-786
JokerPlayers(t) ==
    LET r == req[t]
        i == FirstIndex(player_data, r.name) IN
    /\ pc[t] = "joker_players"
    /\ WriteLock(t, "players")
    /\ NoGuardKept
    /\ UNCHANGED <<questions, game_events, current_question, current_question_state, jumped>>
    /\ IF i = 0
       THEN /\ UNCHANGED player_data
            /\ Done(t, r, 400, "Player name was not found!")
       ELSE IF player_data[i].jokers < 1
       THEN /\ UNCHANGED player_data
            /\ Done(t, r, 406, "No jokers available!")
       ELSE /\ player_data' = [player_data EXCEPT ![i].jokers = @ - 1]
            /\ Done(t, r, 200, loc[t].wrong_answers)

get_joker_fifty_fifty(t, Names) ==
    \/ \E n \in Names : JokerCheck(t, n)
    \/ JokerLoad(t)
    \/ JokerQuestions(t)
    \/ JokerPlayers(t)

(***************************************************************************)
(* check_state_add_events (main.rs 168-478), called by get_game_events      *)
(* (main.rs 790-799).                                                       *)
(***************************************************************************)
\* faulty variant: the state write guard is dropped right after the match
HoldStateDropped(t, w) == w

\* the state write guard taken at line 170 lives to the end of the function
HoldState(t, w) == AcquireWrite(t, "state", w)

\* lines 170-175 (261, 282, 303, 335, 375, 422): the match on the state; in a
\* ready state the atomic is advanced or read at once.  No advancement is
\* started once the log holds cap events.
PollMatch(t, cap) ==
    LET r == [op |-> "get_game_events"]
        s == current_question_state IN
    /\ Starting(t)
    /\ WriteLock(t, "state")
    /\ UNCHANGED <<player_data, questions, game_events, current_question_state, jumped>>
    /\ IF ~IsReady(s)
       THEN /\ UNCHANGED current_question
            /\ NoGuardKept
            /\ Continue(t, r, "events_read", NoLocals)
       ELSE /\ Len(game_events) < cap
            /\ current_question' =
                  IF s = Results(TRUE) THEN current_question + 1 ELSE current_question
            /\ wr' = HoldState(t, wr)
            /\ UNCHANGED rd
            /\ Continue(t, r, "adv_questions",
                        [state |-> s,
                         question_id |-> IF s = Results(TRUE) THEN current_question + 1
                                         ELSE current_question])

\* lines 176-201, 262-264, 283-285, 304-305, 336-337, 376-377, 423-424
PollQuestions(t) ==
    LET s == loc[t].state
        qid == loc[t].question_id IN
    /\ pc[t] = "adv_questions"
    /\ ReadLock(t, "questions")
    /\ UNCHANGED <<store, jumped>>
    /\ IF s = Results(TRUE)
       THEN /\ wr' = wr
            /\ rd' = AcquireRead(t, "questions", rd)
            /\ IF qid > Len(questions)
               THEN Continue(t, req[t], "adv_players",
                        [state |-> s, question_id |-> qid, game_ending |-> TRUE])
               ELSE Continue(t, req[t], "adv_players",
                        [state |-> s, question_id |-> qid, game_ending |-> FALSE,
                         question_type |-> questions[qid].question_type,
                         category |-> questions[qid].category,
                         question |-> questions[qid].question,
                         answers |-> questions[qid].answers])
       ELSE IF qid < 1 \/ qid > Len(questions)
       THEN Panic(t, req[t])
       ELSE /\ wr' = wr
            /\ rd' = AcquireRead(t, "questions", rd)
            /\ IF s[1] \in AnsweringTags
               THEN Continue(t, req[t], "adv_players",
                        [state |-> s, question_id |-> qid,
                         correct_answer |-> questions[qid].correct_answer])
               ELSE Continue(t, req[t], "adv_events",
                        [state |-> s, question_id |-> qid,
                         question |-> questions[qid].question,
                         answers |-> questions[qid].answers])

\* the scoring arm chosen by the state
Score(s, players, correct_answer) ==
    CASE s = NormalQAnswering(TRUE) -> NormalScore(players, correct_answer)
      [] s = BettingQAnswering(TRUE) -> BettingScore(players, correct_answer)
      [] s = EstimationQAnswering(TRUE) -> EstimationScore(players, correct_answer)
      [] s = VersusQAnswering(TRUE) -> VersusScore(players, correct_answer)

\* lines 180-181 (snapshot), 203-209 (reset), 307-317, 339-357, 381-404, 426-460
\* Faulty variant of Clone: the copy loses the answers.
CloneNoAnswers(players) ==
    [i \in Indices(players) |-> [players[i] EXCEPT !.answer = 0]]

\* (*access).clone() (lines 181, 308, 317, 340, 358, 382, 405, 427, 461)
Clone(players) == players

PollPlayers(t) ==
    LET s == loc[t].state IN
    /\ pc[t] = "adv_players"
    /\ UNCHANGED <<questions, game_events, current_question, current_question_state, jumped>>
    /\ IF s = Results(TRUE) /\ loc[t].game_ending
       THEN /\ ReadLock(t, "players")
            /\ rd' = AcquireRead(t, "players", rd)
            /\ wr' = wr
            /\ UNCHANGED player_data
            /\ Continue(t, req[t], "adv_events",
                        [state |-> s, question_id |-> loc[t].question_id,
                         game_ending |-> TRUE, player_data |-> Clone(player_data)])
       ELSE /\ WriteLock(t, "players")
            /\ wr' = AcquireWrite(t, "players", wr)
            /\ rd' = rd
            /\ IF s = Results(TRUE)
               THEN /\ player_data' = ResetPlayers(player_data)
                    /\ Continue(t, req[t], "adv_events", loc[t])
               ELSE /\ player_data' = Score(s, player_data, loc[t].correct_answer)
                    /\ Continue(t, req[t], "adv_events",
                            [state |-> s, question_id |-> loc[t].question_id,
                             correct_answer |-> loc[t].correct_answer,
                             previous_player_data |-> Clone(player_data),
                             player_data |-> Clone(player_data')])

\* name of the begin event and the state that a question type starts
BeginName(question_type) ==
    CASE question_type = "NormalQuestion" -> "BeginNormalQAnswering"
      [] question_type = "BettingQuestion" -> "BeginBettingQBetting"
      [] question_type = "EstimationQuestion" -> "BeginEstimationQAnswering"
      [] question_type = "VersusQuestion" -> "BeginVersusQSelecting"

BeginState(question_type) ==
    CASE question_type = "NormalQuestion" -> NormalQAnswering(FALSE)
      [] question_type = "BettingQuestion" -> BettingQBetting(FALSE)
      [] question_type = "EstimationQuestion" -> EstimationQAnswering(FALSE)
      [] question_type = "VersusQuestion" -> VersusQSelecting(FALSE)

\* the payload of the begin event (lines 221-222, 230, 238-239, 247)
BeginPayload(l) ==
    CASE l.question_type = "NormalQuestion" ->
            [question_type |-> l.question_type, current_question |-> l.question_id,
             category |-> l.category, question |-> l.question, answers |-> l.answers]
      [] l.question_type = "EstimationQuestion" ->
            [question_type |-> l.question_type, current_question |-> l.question_id,
             category |-> l.category, question |-> l.question]
      [] OTHER ->
            [question_type |-> l.question_type, current_question |-> l.question_id,
             category |-> l.category]

\* faulty variant: the new event is put in front of the log
PushEventFront(events, e) == <<e>> \o events

\* (*events).push(new_event) (lines 192, 225, 233, 242, 250, 276, 297, 329,
\* 369, 416, 472)
PushEvent(events, e) == Append(events, e)

\* the event pushed and the state set by each arm
AdvanceEvent(events, l) ==
    CASE l.state = Results(TRUE) /\ l.game_ending ->
            NewEvent(events, "GameEnding", [player_data |-> l.player_data])
      [] l.state = Results(TRUE) ->
            NewEvent(events, BeginName(l.question_type), BeginPayload(l))
      [] l.state = BettingQBetting(TRUE) ->
            NewEvent(events, "BeginBettingQAnswering",
                     [question |-> l.question, answers |-> l.answers])
      [] l.state = VersusQSelecting(TRUE) ->
            NewEvent(events, "BeginVersusQAnswering",
                     [question |-> l.question, answers |-> l.answers])
      [] OTHER ->
            NewEvent(events, "ShowResults",
                     [correct_answer |-> l.correct_answer,
                      previous_player_data |-> l.previous_player_data,
                      player_data |-> l.player_data])

\* faulty variant: the state is left as it was found
AdvanceStateKept(l) == l.state

\* the state set by each arm (lines 194, 227, 235, 244, 252, 278, 299, 331,
\* 371, 418, 474)
AdvanceState(l) ==
    CASE l.state = Results(TRUE) /\ l.game_ending -> GameEnding
      [] l.state = Results(TRUE) -> BeginState(l.question_type)
      [] l.state = BettingQBetting(TRUE) -> BettingQAnswering(FALSE)
      [] l.state = VersusQSelecting(TRUE) -> VersusQAnswering(FALSE)
      [] OTHER -> Results(FALSE)

\* lines 183-194, 211-254, 266-278, 287-299, 319-331, 359-371, 406-418, 462-474:
\* the event is pushed, the state is set, and every guard is dropped
PollEvents(t) ==
    /\ pc[t] = "adv_events"
    /\ WriteLock(t, "events")
    /\ game_events' = PushEvent(game_events, AdvanceEvent(game_events, loc[t]))
    /\ current_question_state' = AdvanceState(loc[t])
    /\ UNCHANGED <<player_data, questions, current_question>>
    /\ jumped' = NoJump
    /\ wr' = DropAllWrite(t)
    /\ rd' = DropAllRead(t)
    /\ Continue(t, req[t], "events_read", NoLocals)

\* lines 795-798: the log is cloned under a read guard and returned
PollRead(t) ==
    /\ pc[t] = "events_read"
    /\ ReadLock(t, "events")
    /\ UNCHANGED <<store, jumped>>
    /\ NoGuardKept
    /\ Done(t, req[t], 200, game_events)

get_game_events(t, cap) ==
    \/ PollMatch(t, cap)
    \/ PollQuestions(t)
    \/ PollPlayers(t)
    \/ PollEvents(t)
    \/ PollRead(t)

(***************************************************************************)
(* give_money, set_jokers, kick_player (main.rs 808-868).                   *)
(***************************************************************************)
give_money(t, Names, Amounts) ==
    \E n \in Names, m \in Amounts :
        LET r == [op |-> "give_money", name |-> n, money |-> m]
            i == FirstIndex(player_data, n) IN
        /\ Starting(t)
        /\ WriteLock(t, "players")
        /\ NoGuardKept
        /\ UNCHANGED <<questions, game_events, current_question, current_question_state, jumped>>
        /\ IF i = 0
           THEN /\ UNCHANGED player_data
                /\ Done(t, r, 400, "Player name was not found!")
           ELSE /\ player_data[i].money + m >= -MoneyFloor
                /\ player_data[i].money + m <= MoneyCeil
                /\ player_data' = [player_data EXCEPT ![i].money = @ + m]
                /\ Done(t, r, 200, [name |-> n, money |-> player_data[i].money + m])

set_jokers(t, Names, Jokers) ==
    \E n \in Names, j \in Jokers :
        LET r == [op |-> "set_jokers", name |-> n, jokers |-> j]
            i == FirstIndex(player_data, n) IN
        /\ Starting(t)
        /\ WriteLock(t, "players")
        /\ NoGuardKept
        /\ UNCHANGED <<questions, game_events, current_question, current_question_state, jumped>>
        /\ IF i = 0
           THEN /\ UNCHANGED player_data
                /\ Done(t, r, 400, "Player name was not found!")
           ELSE /\ player_data' = [player_data EXCEPT ![i].jokers = j]
                /\ Done(t, r, 200, [name |-> n, jokers |-> j])

kick_player(t, Names) ==
    \E n \in Names :
        LET r == [op |-> "kick_player", name |-> n] IN
        /\ Starting(t)
        /\ WriteLock(t, "players")
        /\ NoGuardKept
        /\ UNCHANGED <<questions, game_events, current_question, current_question_state, jumped>>
        /\ player_data' = Retain(player_data, n)
        /\ IF Len(Retain(player_data, n)) = Len(player_data)
           THEN Done(t, r, 400, "Player name was not found!")
           ELSE Done(t, r, 200, "")

(***************************************************************************)
(* Moderator overrides (main.rs 871-917).                                   *)
(***************************************************************************)
activate_next_question(t) ==
    LET r == [op |-> "activate_next_question"] IN
    /\ Starting(t)
    /\ WriteLock(t, "state")
    /\ NoGuardKept
    /\ UNCHANGED <<player_data, questions, game_events, current_question>>
    /\ IF current_question_state[1] = "Results"
       THEN /\ current_question_state' = Results(TRUE)
            /\ jumped' = [jumped EXCEPT !.activated = jumped.number # 0]
            /\ Done(t, r, 200, "")
       ELSE /\ UNCHANGED <<current_question_state, jumped>>
            /\ Done(t, r, 406, "QuestionState is not Results! => Not ready for next question!")

\* lines 894-895, 909-912: the override stores the same phase with flag true
Forced(s) == <<s[1], TRUE>>

\* Faulty variant of ForceAnsweringOk: the flag of the phase is not looked at.
ForceAnsweringOkReady(s) == s[1] \in {"BettingQBetting", "VersusQSelecting"}

\* lines 892-897: the two arms that do not return NotAcceptable
ForceAnsweringOk(s) == s \in {BettingQBetting(FALSE), VersusQSelecting(FALSE)}

force_question_answering(t) ==
    LET r == [op |-> "force_question_answering"] IN
    /\ Starting(t)
    /\ WriteLock(t, "state")
    /\ NoGuardKept
    /\ UNCHANGED <<player_data, questions, game_events, current_question, jumped>>
    /\ IF ForceAnsweringOk(current_question_state)
       THEN /\ current_question_state' = Forced(current_question_state)
            /\ Done(t, r, 200, "")
       ELSE /\ UNCHANGED current_question_state
            /\ Done(t, r, 406, "QuestionState is not Betting(false) or Selecting(false)!")

force_question_results(t) ==
    LET r == [op |-> "force_question_results"] IN
    /\ Starting(t)
    /\ WriteLock(t, "state")
    /\ NoGuardKept
    /\ UNCHANGED <<player_data, questions, game_events, current_question, jumped>>
    /\ IF AnswerPhaseOk(current_question_state)
       THEN /\ current_question_state' = Forced(current_question_state)
            /\ Done(t, r, 200, "")
       ELSE /\ UNCHANGED current_question_state
            /\ Done(t, r, 406, "QuestionState is not *Answering(false)!")

(***************************************************************************)
(* set_next_question (main.rs 925-946).                                     *)
(***************************************************************************)
\* lines 930, 959
AdminPhaseOk(s) == s = Results(FALSE) \/ s = GameEnding

\* faulty variant: the state guard is dropped once the state has been checked
AdminGuardDropped(t, w) == w

\* lines 929, 958: the state write guard is held until the handler returns
AdminGuard(t, w) == AcquireWrite(t, "state", w)

\* the index stored by the swap of line 942
JumpTarget(number) == number - 1

\* lines 929-933: the state write guard is kept until the handler returns
JumpCheck(t, n) ==
    LET r == [op |-> "set_next_question", number |-> n] IN
    /\ Starting(t)
    /\ WriteLock(t, "state")
    /\ UNCHANGED <<store, jumped>>
    /\ IF ~AdminPhaseOk(current_question_state)
       THEN /\ NoGuardKept
            /\ Done(t, r, 406, "QuestionState is not Results(false) or GameEnding!")
       ELSE /\ wr' = AdminGuard(t, wr)
            /\ UNCHANGED rd
            /\ Continue(t, r, "jump_questions", NoLocals)

\* lines 935-945
JumpQuestions(t) ==
    LET r == req[t] IN
    /\ pc[t] = "jump_questions"
    /\ ReadLock(t, "questions")
    /\ UNCHANGED <<player_data, questions, game_events>>
    /\ wr' = DropAllWrite(t)
    /\ rd' = DropAllRead(t)
    /\ IF r.number < 1 \/ r.number > Len(questions)
       THEN /\ UNCHANGED <<current_question, current_question_state, jumped>>
            /\ Done(t, r, 400, "Number is not a valid question ID (must be 1 - len(questions))!")
       ELSE /\ current_question' = JumpTarget(r.number)
            /\ current_question_state' = Results(FALSE)
            /\ jumped' = [number |-> r.number, activated |-> FALSE]
            /\ Done(t, r, 200, current_question)

set_next_question(t, Numbers) ==
    \/ \E n \in Numbers : JumpCheck(t, n)
    \/ JumpQuestions(t)

(***************************************************************************)
(* load_questions (main.rs 954-977).                                        *)
(***************************************************************************)
\* lines 958-968: state check and the read of the file (no `.await` inside)
LoadCheck(t, f) ==
    LET r == [op |-> "load_questions", filename |-> f] IN
    /\ Starting(t)
    /\ WriteLock(t, "state")
    /\ UNCHANGED <<store, jumped>>
    /\ IF ~AdminPhaseOk(current_question_state)
       THEN /\ NoGuardKept
            /\ Done(t, r, 406, "QuestionState is not Results(false) or GameEnding!")
       ELSE IF read_questions(f).is_err
       THEN /\ NoGuardKept
            /\ Done(t, r, 400, "Question file could not be loaded!")
       ELSE /\ wr' = AdminGuard(t, wr)
            /\ UNCHANGED rd
            /\ Continue(t, r, "load_write", [new_questions |-> read_questions(f).questions])

\* lines 971-975
LoadWrite(t) ==
    /\ pc[t] = "load_write"
    /\ WriteLock(t, "questions")
    /\ questions' = loc[t].new_questions
    /\ current_question' = 0
    /\ current_question_state' = Results(FALSE)
    /\ UNCHANGED <<player_data, game_events>>
    /\ jumped' = NoJump
    /\ wr' = DropAllWrite(t)
    /\ rd' = DropAllRead(t)
    /\ Done(t, req[t], 200, Len(loc[t].new_questions))

load_questions(t, Files) ==
    \/ \E f \in Files : LoadCheck(t, f)
    \/ LoadWrite(t)

(***************************************************************************)
(* main (main.rs 982-995): the store after construction, the questions read *)
(* from the configured file.  A file that cannot be read or parsed makes    *)
(* main return the error (`?`, line 986): no store is built and no request  *)
(* is served, so such a file gives no initial state.                        *)
(***************************************************************************)
InitWith(Files) ==
    /\ player_data = <<>>
    /\ questions \in {read_questions(f).questions :
                         f \in {g \in Files : ~read_questions(g).is_err}}
    /\ game_events = <<>>
    /\ current_question = 0
    /\ current_question_state = Results(FALSE)
    /\ wr = [l \in Locks |-> 0]
    /\ rd = [l \in Locks |-> {}]
    /\ pc = [t \in Threads |-> "idle"]
    /\ req = [t \in Threads |-> NoRequest]
    /\ loc = [t \in Threads |-> NoLocals]
    /\ gh = [t \in Threads |-> GhIdle]
    /\ last = NoLast
    /\ jumped = NoJump
    /\ acq = NoAcq

(***************************************************************************)
(* Inputs.                                                                  *)
(***************************************************************************)
Ann == <<65>>               \* "A"
AnnPadded == <<65, 32>>     \* "A "
AnnTabbed == <<9, 65>>      \* "\tA"
Bob == <<66>>               \* "B"
Blank == <<32>>             \* " "
BlankLine == <<10>>         \* "\n"
Cy == <<67>>                \* "C"

(***************************************************************************)
(* Spec: two requests in flight, one betting question, one player name.     *)
(***************************************************************************)
Init == InitWith({"betting.json"})

Next ==
    \E t \in Threads :
        \/ join_player(t, {Ann})
        \/ bet_money(t, {Ann}, {500})
        \/ answer_question(t, {Ann}, {1})
        \/ get_game_events(t, MaxEvents)
        \/ activate_next_question(t)
        \/ force_question_answering(t)
        \/ force_question_results(t)

Spec == Init /\ [][Next]_vars

(***************************************************************************)
(* SpecJoin: the roster under join and kick requests served one at a time,  *)
(* with padded and blank names.                                             *)
(***************************************************************************)
InitJoin == InitWith({"normal.json"})

NextJoin ==
    \/ join_player(1, {Ann, AnnPadded, AnnTabbed, Bob, Blank, BlankLine})
    \/ kick_player(1, {Ann, Bob})
    \/ answer_question(1, {Ann, Bob}, {2})
    \/ get_game_events(1, MaxEvents)
    \/ activate_next_question(1)

SpecJoin == InitJoin /\ [][NextJoin]_vars

(***************************************************************************)
(* SpecBet: one betting question, requests served one at a time, with the   *)
(* moderator taking money away.                                             *)
(***************************************************************************)
InitBet == InitWith({"betting.json"})

NextBet ==
    \/ join_player(1, {Ann, Bob})
    \/ bet_money(1, {Ann, Bob}, {0, 100, 500})
    \/ answer_question(1, {Ann, Bob}, {1, 2})
    \/ get_game_events(1, MaxEvents)
    \/ give_money(1, {Ann}, {-600, -500})
    \/ activate_next_question(1)
    \/ force_question_answering(1)
    \/ force_question_results(1)

SpecBet == InitBet /\ [][NextBet]_vars

(***************************************************************************)
(* SpecPhases: all four question types, reached by setNextQuestion, with    *)
(* requests served one at a time.                                           *)
(***************************************************************************)
InitPhases == InitWith({"all-types.json"})

NextPhases ==
    \/ join_player(1, {Ann})
    \/ bet_money(1, {Ann}, {500})
    \/ answer_question(1, {Ann}, {1, 2})
    \/ get_game_events(1, MaxEvents)
    \/ activate_next_question(1)
    \/ force_question_answering(1)
    \/ force_question_results(1)
    \/ set_next_question(1, {1, 2, 3, 4})

SpecPhases == InitPhases /\ [][NextPhases]_vars

(***************************************************************************)
(* SpecFail: every handler that can fail, requests served one at a time;    *)
(* each of the three questions is reached by setNextQuestion.               *)
(***************************************************************************)
InitFail == InitWith({"normal-betting-versus.json"})

NextFail ==
    \/ join_player(1, {Ann, Bob, Blank})
    \/ bet_money(1, {Ann}, {0, 500})
    \/ attack_player(1, {Ann, Bob}, {Ann, Bob})
    \/ answer_question(1, {Ann}, {0, 1})
    \/ get_joker_fifty_fifty(1, {Ann})
    \/ get_game_events(1, MaxEventsFail)
    \/ give_money(1, {Ann}, {500})
    \/ set_jokers(1, {Ann}, {0})
    \/ kick_player(1, {Bob})
    \/ activate_next_question(1)
    \/ force_question_answering(1)
    \/ force_question_results(1)
    \/ set_next_question(1, {0, 1, 2, 3})
    \/ load_questions(1, {"normal-betting-versus.json", "missing.json"})

SpecFail == InitFail /\ [][NextFail]_vars

(***************************************************************************)
(* SpecJump: two requests in flight, a betting and a normal question, the   *)
(* moderator jumping to the second.                                         *)
(***************************************************************************)
InitJump == InitWith({"betting-normal.json"})

NextJump ==
    \E t \in Threads :
        \/ join_player(t, {Ann})
        \/ bet_money(t, {Ann}, {500})
        \/ get_game_events(t, MaxEvents)
        \/ activate_next_question(t)
        \/ force_question_answering(t)
        \/ force_question_results(t)
        \/ set_next_question(t, {2})

SpecJump == InitJump /\ [][NextJump]_vars

(***************************************************************************)
(* SpecLocks: two requests in flight, with every handler that holds a guard *)
(* while it asks for another lock (the poll, setNextQuestion,               *)
(* loadQuestions) and handlers that take their locks one after another.     *)
(***************************************************************************)
InitLocks == InitWith({"betting.json"})

StepLocks(t) ==
    \/ join_player(t, {Ann})
    \/ bet_money(t, {Ann}, {500})
    \/ get_joker_fifty_fifty(t, {Ann})
    \/ get_game_events(t, MaxEventsLocks)
    \/ activate_next_question(t)
    \/ force_question_answering(t)
    \/ force_question_results(t)
    \/ set_next_question(t, {1})
    \/ load_questions(t, {"betting.json"})

NextLocks == \E t \in Threads : StepLocks(t)

SpecLocks == InitLocks /\ [][NextLocks]_vars

\* a request that has started goes on whenever the lock it waits for is
\* granted; tokio's RwLock queues its waiters fairly, so a request that can be
\* granted its lock again and again is granted it
Resume(t) == pc[t] # "idle" /\ StepLocks(t)

SpecLocksFair == SpecLocks /\ \A t \in Threads : SF_vars(Resume(t))

(***************************************************************************)
(* SpecVersus: one versus question, requests served one at a time; Bob and  *)
(* Cy select Ann, whose name may be carried by two players.                 *)
(***************************************************************************)
InitVersus == InitWith({"versus.json"})

NextVersus ==
    \/ JoinPlayer(1, {Ann, AnnPadded, Bob, Cy}, MaxPlayersVersus)
    \/ attack_player(1, {Ann, Bob, Cy}, {Ann, Bob})
    \/ answer_question(1, {Bob, Cy}, {1, 2})
    \/ get_game_events(1, MaxEventsLocks)
    \/ give_money(1, {Ann}, {-499, -495})
    \/ activate_next_question(1)
    \/ force_question_answering(1)
    \/ force_question_results(1)

SpecVersus == InitVersus /\ [][NextVersus]_vars

(***************************************************************************)
(* SpecEstimation: one estimation question (correct value 50), requests     *)
(* served one at a time; Ann estimates 48, Bob 52 or 10, Cy 10.             *)
(***************************************************************************)
InitEstimation == InitWith({"estimation.json"})

NextEstimation ==
    \/ JoinPlayer(1, {Ann, AnnPadded, Bob, Cy}, MaxPlayersVersus)
    \/ answer_question(1, {Ann}, {48})
    \/ answer_question(1, {Bob}, {52, 10})
    \/ answer_question(1, {Cy}, {10})
    \/ get_game_events(1, MaxEventsFail)
    \/ activate_next_question(1)
    \/ force_question_results(1)

SpecEstimation == InitEstimation /\ [][NextEstimation]_vars

(***************************************************************************)
(* SpecNormal: one normal question (correct answer 2), requests served one  *)
(* at a time.                                                               *)
(***************************************************************************)
InitNormal == InitWith({"normal.json"})

NextNormal ==
    \/ join_player(1, {Ann, Bob})
    \/ answer_question(1, {Ann, Bob}, {1, 2})
    \/ get_game_events(1, MaxEventsFail)
    \/ activate_next_question(1)
    \/ force_question_results(1)

SpecNormal == InitNormal /\ [][NextNormal]_vars

(***************************************************************************)
(* SpecAdmin: two requests in flight; the moderator jumps and replaces the  *)
(* betting question by a normal one while bets and polls are under way.     *)
(***************************************************************************)
InitAdmin == InitWith({"betting.json"})

NextAdmin ==
    \E t \in Threads :
        \/ join_player(t, {Ann})
        \/ bet_money(t, {Ann}, {500})
        \/ get_game_events(t, MaxEventsLocks)
        \/ activate_next_question(t)
        \/ force_question_answering(t)
        \/ force_question_results(t)
        \/ set_next_question(t, {1})
        \/ load_questions(t, {"normal.json"})

SpecAdmin == InitAdmin /\ [][NextAdmin]_vars

(***************************************************************************)
(* SpecScan: two requests in flight; bets of one player while a second      *)
(* player joins or is kicked, over one betting question.                    *)
(***************************************************************************)
InitScan == InitWith({"betting.json"})

NextScan ==
    \E t \in Threads :
        \/ join_player(t, {Ann, Bob})
        \/ kick_player(t, {Bob})
        \/ bet_money(t, {Ann}, {500})
        \/ get_game_events(t, MaxEventsFail)
        \/ activate_next_question(t)

SpecScan == InitScan /\ [][NextScan]_vars

(***************************************************************************)
(* SpecJoker: fifty-fifty jokers of up to three players, two of whom may    *)
(* carry the same name, served one request at a time over a normal or a     *)
(* betting question.                                                        *)
(***************************************************************************)
InitJoker == InitWith({"normal.json", "betting.json"})

NextJoker ==
    \/ JoinPlayer(1, {Ann, AnnPadded, Bob}, MaxPlayersVersus)
    \/ get_joker_fifty_fifty(1, {Ann, Bob, Cy})
    \/ set_jokers(1, {Ann}, {0, 1})
    \/ get_game_events(1, MaxEventsFail)
    \/ activate_next_question(1)
    \/ force_question_answering(1)

SpecJoker == InitJoker /\ [][NextJoker]_vars

(***************************************************************************)
(* SpecUnanswered: an estimation question (correct value 50) settled while  *)
(* some or all of up to three players have given no answer; the answers     *)
(* offered are nearer than 0 (48), as far as 0 (100) and farther (120).     *)
(***************************************************************************)
InitUnanswered == InitWith({"estimation.json"})

NextUnanswered ==
    \/ JoinPlayer(1, {Ann, AnnPadded, Bob, Cy}, MaxPlayersVersus)
    \/ answer_question(1, {Ann}, {100, 120})
    \/ answer_question(1, {Bob}, {48, 120})
    \/ get_game_events(1, MaxEventsFail)
    \/ activate_next_question(1)
    \/ force_question_results(1)

SpecUnanswered == InitUnanswered /\ [][NextUnanswered]_vars

(***************************************************************************)
(* SpecAnswer: answers of two players served one request at a time, over a  *)
(* list that holds one question of any of the four types.                   *)
(***************************************************************************)
InitAnswer == InitWith({"normal.json", "betting.json", "estimation.json", "versus.json"})

NextAnswer ==
    \/ join_player(1, {Ann, Bob})
    \/ answer_question(1, {Ann, Bob}, {1, 2})
    \/ get_game_events(1, MaxEventsFail)
    \/ activate_next_question(1)
    \/ force_question_answering(1)

SpecAnswer == InitAnswer /\ [][NextAnswer]_vars

(***************************************************************************)
(* SpecModerator: the moderator's requests (polls, requestNextQuestion and  *)
(* the two overrides) on one connection, the players' requests on another,  *)
(* over a betting and a versus question.  SpecModeratorFair adds            *)
(* that the moderator keeps issuing each of its requests; nothing is        *)
(* assumed about the players, who may act, stop in the middle of a request  *)
(* or never act at all.                                                     *)
(***************************************************************************)
InitModerator == InitWith({"betting-versus.json"})

Moderator(t) ==
    \/ get_game_events(t, MaxEventsModerator)
    \/ activate_next_question(t)
    \/ force_question_answering(t)
    \/ force_question_results(t)

NextModerator ==
    \/ Moderator(1)
    \/ join_player(2, {Ann})
    \/ bet_money(2, {Ann}, {500})
    \/ answer_question(2, {Ann}, {1})

SpecModerator == InitModerator /\ [][NextModerator]_vars

SpecModeratorFair ==
    /\ SpecModerator
    /\ SF_vars(get_game_events(1, MaxEventsModerator))
    /\ SF_vars(activate_next_question(1))
    /\ SF_vars(force_question_answering(1))
    /\ SF_vars(force_question_results(1))

(***************************************************************************)
(* Properties.                                                              *)
(***************************************************************************)
Completed(op) == last.t # 0 /\ last.req.op = op

\* C1: no two players of the roster carry the same name, whatever joins were
\* requested (repeated, padded).
UniqueNames ==
    \A i, j \in Indices(player_data) :
        i # j => player_data[i].name # player_data[j].name

\* C2: exactly-once advancement.  At most one poll is inside a transition;
\* the log changes only by the one event that the poll holding the matched,
\* ready state appends, together with the change to a state that is not
\* ready; the index is then the one the poll computed (one increment for
\* Results(true)) and the roster the one it scored (one scoring for
\* *Answering(true)); and a ready state is left only by such a step.
ExactlyOnceStep ==
    /\ Cardinality({t \in Threads : pc'[t] \in {"adv_questions", "adv_players",
                                               "adv_events"}}) <= 1
    /\ game_events' # game_events =>
          \E t \in Threads :
              /\ pc[t] = "adv_events" /\ pc'[t] = "events_read"
              /\ Len(game_events') = Len(game_events) + 1
              /\ SubSeq(game_events', 1, Len(game_events)) = game_events
              /\ current_question_state = loc[t].state
              /\ IsReady(current_question_state)
              /\ ~IsReady(current_question_state')
              /\ current_question' = loc[t].question_id
              /\ loc[t].state[1] \in AnsweringTags =>
                    player_data' = Score(loc[t].state, loc[t].previous_player_data,
                                         loc[t].correct_answer)
    /\ (IsReady(current_question_state) /\ ~IsReady(current_question_state')) =>
          game_events' # game_events
    /\ \A t \in Threads :
          (pc[t] = "idle" /\ pc'[t] = "adv_questions"
              /\ current_question_state = Results(TRUE)) =>
                current_question' = current_question + 1

ExactlyOnceAdvancement == [][ExactlyOnceStep]_vars

\* one poll has advanced the state and not yet returned; the poll of another
\* thread, issued meanwhile, returned without changing anything
TwoPollersOneAdvanced ==
    \E t \in Threads :
        /\ pc[t] = "events_read" /\ gh[t].dirty
        /\ Completed("get_game_events") /\ last.t # t /\ ~last.dirty

\* C3: a poll issued right after a poll, with no step of any request in
\* between, changes nothing in the store.
PollIdempotent ==
    (Completed("get_game_events") /\ last.second # "no") => ~last.dirty

SecondPollAfterAdvance ==
    Completed("get_game_events") /\ last.second = "after_advancing_poll"

\* C4: the event at position i (0-based) has id i.
EventIdsDense ==
    \A i \in Indices(game_events) : game_events[i].id = i - 1

ThreeEventsLogged == Len(game_events) >= 3

\* C5: every player's money is >= 0.
MoneyNeverNegative ==
    \A i \in Indices(player_data) : player_data[i].money >= 0

\* C6: right after a Betting or a Versus settlement no player has a balance
\* of 0.
NoZeroAfterSettlement ==
    [][\A t \in Threads :
          (/\ pc[t] = "adv_players" /\ pc'[t] = "adv_events"
           /\ loc[t].state \in {BettingQAnswering(TRUE), VersusQAnswering(TRUE)})
          => \A i \in Indices(player_data') : player_data'[i].money # 0]_vars

\* C7: a bet_money request issued in a state other than BettingQBetting(false)
\* is answered 406 and has changed nothing in the store.
PlaceBetGated ==
    (Completed("bet_money") /\ last.state0 # BettingQBetting(FALSE))
        => (last.status = 406 /\ ~last.dirty)

BetRefusedWhileAnswering ==
    /\ Completed("bet_money")
    /\ last.state0 = BettingQAnswering(FALSE)
    /\ last.status = 406
    /\ current_question_state = BettingQAnswering(FALSE)

\* C8: bet_money writes a bet only while the state is BettingQBetting,
\* attack_player a selection only in VersusQSelecting, answer_question an
\* answer only in a *QAnswering state (whatever the ready flag, which the
\* claim wants false): nothing is recorded in a later phase.
WritesOnlyInTheirPhase ==
    [][\A t \in Threads :
          /\ (pc[t] = "bet_write" /\ pc'[t] = "bet_scan")
                => current_question_state[1] = "BettingQBetting"
          /\ (pc[t] = "attack_write" /\ pc'[t] = "attack_scan")
                => current_question_state[1] = "VersusQSelecting"
          /\ (pc[t] = "answer_write" /\ pc'[t] = "answer_scan")
                => current_question_state[1] \in AnsweringTags]_vars

\* C9: a successful set_next_question(n) was issued in Results(false) or
\* GameEnding, returns the previous index and leaves index n-1 and
\* Results(false); once activate_next_question has succeeded after it, no jump
\* or reload in between, the next event appended is the begin event of
\* question n: current_question = n, with the type and category of question n
\* and, where the event carries one, its prompt.
JumpStep ==
    /\ \A t \in Threads :
          (pc[t] = "jump_questions" /\ last'.t = t /\ last'.status = 200) =>
              /\ last'.state0 \in {Results(FALSE), GameEnding}
              /\ last'.body = current_question
              /\ current_question' = last'.req.number - 1
              /\ current_question_state' = Results(FALSE)
    /\ (jumped.activated /\ game_events' # game_events) =>
          LET e == game_events'[Len(game_events')]
              q == questions[jumped.number] IN
          /\ e.event_name = BeginName(q.question_type)
          /\ e.event.current_question = jumped.number
          /\ e.event.question_type = q.question_type
          /\ e.event.category = q.category
          /\ e.event_name \in {"BeginNormalQAnswering", "BeginEstimationQAnswering"}
                => e.event.question = q.question

JumpBeginsQuestionN == [][JumpStep]_vars

\* C10: a request answered 400 or 406 has changed nothing in the store.
FailedActionLeavesStore ==
    (last.t # 0 /\ last.status \in {400, 406}) => ~last.dirty

AttackRefusedUnknownTarget ==
    /\ Completed("attack_player")
    /\ last.status = 400
    /\ last.body = "Player vs_player was not found!"
    /\ last.state0 = VersusQSelecting(FALSE)

\* position of a lock in the documented order (main.rs 147):
\* current_question_state -> questions -> player_data -> game_events
LockRank(l) ==
    CASE l = "state" -> 1
      [] l = "questions" -> 2
      [] l = "players" -> 3
      [] l = "events" -> 4

\* C11: whenever a request acquires a lock, every lock it already holds comes
\* earlier in the order state, questions, players, events.
LockOrderRespected ==
    acq.lock # "none" => \A h \in acq.held : LockRank(h) < LockRank(acq.lock)

\* the poll takes the events lock while it holds the three others
EventsTakenHoldingAll ==
    acq.lock = "events" /\ acq.held = {"state", "questions", "players"}

\* C12: no state in which every request in flight waits for a lock, and every
\* request that has started returns (or unwinds) and holds no guard afterwards.
NoOperationBlocksForever ==
    /\ []((\E t \in Threads : pc[t] # "idle")
            => \E t \in Threads : ENABLED <<Resume(t)>>_vars)
    /\ \A t \in Threads : (pc[t] # "idle") ~> (pc[t] = "idle" /\ Held(t) = {})

\* a bet waits for the state lock while a poll, holding it, is about to ask
\* for the players lock
BetWaitsForPoll ==
    \E t, u \in Threads :
        /\ pc[t] = "bet_flip"
        /\ pc[u] = "adv_players"
        /\ wr["state"] = u

\* a poll of thread t performs the settlement of state s in this step
Settles(t, s) ==
    pc[t] = "adv_players" /\ pc'[t] = "adv_events" /\ loc[t].state = s

FloorToOne(m) == IF m = 0 THEN 1 ELSE m

\* C13: the Betting settlement stores money + bet for a player whose answer is
\* the correct one and money - bet for every other player, a result of 0
\* being stored as 1 in both cases; no other field of a player changes.
BettingSettlementStep ==
    \A t \in Threads :
        Settles(t, BettingQAnswering(TRUE)) =>
            /\ Len(player_data') = Len(player_data)
            /\ \A i \in Indices(player_data) :
                  player_data'[i] =
                      [player_data[i] EXCEPT
                          !.money =
                              IF player_data[i].answer = loc[t].correct_answer
                              THEN FloorToOne(@ + player_data[i].money_bet)
                              ELSE FloorToOne(@ - player_data[i].money_bet)]

BettingSettlement == [][BettingSettlementStep]_vars

\* the balance that the claim gives player p: the balance before the
\* settlement times 0.5 per correct and 2 per incorrect selector of p's name,
\* truncated, 0 stored as 1
VersusClaimed(players, correct_answer, p) ==
    LET sel == {i \in Indices(players) :
                    /\ players[i].vs_player # EmptyString
                    /\ players[i].vs_player = players[p].name}
        a == Cardinality({i \in sel : players[i].answer = correct_answer})
        b == Cardinality(sel) - a
        m == IF b >= a THEN players[p].money * Pow2(b - a)
             ELSE TruncDiv(players[p].money, Pow2(a - b))
    IN  FloorToOne(m)

\* C14: the Versus settlement stores, for every player P, the truncation of
\* P's balance times 0.5^a times 2^b (a correct, b incorrect selectors of P,
\* taken from the roster before the settlement), 0 stored as 1.
VersusSettlementStep ==
    \A t \in Threads :
        Settles(t, VersusQAnswering(TRUE)) =>
            /\ Len(player_data') = Len(player_data)
            /\ \A p \in Indices(player_data) :
                  player_data'[p].money =
                      VersusClaimed(player_data, loc[t].correct_answer, p)

VersusSettlement == [][VersusSettlementStep]_vars

\* |answer - correct value| of player p
Distance(players, correct_answer, p) == Abs(players[p].answer - correct_answer)

\* C15: the Estimation settlement adds the Estimation reward to exactly the
\* players whose distance to the correct value is minimal over the roster,
\* ties included, and leaves every other player as it was.
EstimationSettlementStep ==
    \A t \in Threads :
        Settles(t, EstimationQAnswering(TRUE)) =>
            /\ Len(player_data') = Len(player_data)
            /\ \A p \in Indices(player_data) :
                  player_data'[p] =
                      IF \A q \in Indices(player_data) :
                            Distance(player_data, loc[t].correct_answer, p)
                                <= Distance(player_data, loc[t].correct_answer, q)
                      THEN [player_data[p] EXCEPT !.money = @ + ESTIMATION_Q_MONEY]
                      ELSE player_data[p]

EstimationSettlement == [][EstimationSettlementStep]_vars

\* C16: the Normal settlement adds the Normal reward to exactly the players
\* whose answer is the correct one; every other player, with another answer
\* or none, is left as it was.
NormalSettlementStep ==
    \A t \in Threads :
        Settles(t, NormalQAnswering(TRUE)) =>
            /\ Len(player_data') = Len(player_data)
            /\ \A p \in Indices(player_data) :
                  player_data'[p] =
                      IF player_data[p].answer = loc[t].correct_answer
                      THEN [player_data[p] EXCEPT !.money = @ + NORMAL_Q_MONEY]
                      ELSE player_data[p]

NormalSettlement == [][NormalSettlementStep]_vars

\* a settlement has rewarded one player and left a player with a wrong answer
\* as it was
NormalSettledRightAndWrong ==
    \E t \in Threads :
        /\ pc[t] = "adv_events"
        /\ loc[t].state = NormalQAnswering(TRUE)
        /\ \E i, j \in Indices(player_data) :
              /\ loc[t].previous_player_data[i].answer = loc[t].correct_answer
              /\ player_data[i].money = loc[t].previous_player_data[i].money + NORMAL_Q_MONEY
              /\ loc[t].previous_player_data[j].answer = 1
              /\ loc[t].correct_answer = 2
              /\ player_data[j].money = loc[t].previous_player_data[j].money

\* C17: in every step the log stays as it is or gains exactly one event at
\* its end, and it gains one only in the step in which a poll, inside
\* check_state_add_events, pushes the event of its transition.
LogAppendOnlyStep ==
    \/ game_events' = game_events
    \/ /\ Len(game_events') = Len(game_events) + 1
       /\ SubSeq(game_events', 1, Len(game_events)) = game_events
       /\ \E t \in Threads :
             /\ req[t].op = "get_game_events"
             /\ pc[t] = "adv_events"
             /\ pc'[t] = "events_read"

LogAppendOnly == [][LogAppendOnlyStep]_vars

\* a poll has just pushed the second event of the log
SecondEventPushed ==
    \E t \in Threads :
        /\ pc[t] = "events_read"
        /\ gh[t].dirty
        /\ Len(game_events) = 2

\* C18: the question list is replaced, and the index is stored by
\* set_next_question or load_questions, only in a step that finds the state
\* Results(false) or GameEnding; in every other state the list does not
\* change and the index changes only by the increment of a poll that found
\* Results(true).
NoReloadMidQuestionStep ==
    /\ \A t \in Threads :
          (\/ pc[t] = "load_write" /\ pc'[t] = "idle"
           \/ pc[t] = "jump_questions" /\ last'.t = t /\ last'.status = 200)
          => AdminPhaseOk(current_question_state)
    /\ questions' # questions =>
          \E t \in Threads : pc[t] = "load_write" /\ pc'[t] = "idle"
    /\ current_question' # current_question =>
          \/ \E t \in Threads :
                pc[t] \in {"load_write", "jump_questions"} /\ pc'[t] = "idle"
          \/ /\ current_question_state = Results(TRUE)
             /\ current_question' = current_question + 1
             /\ \E t \in Threads : pc[t] = "idle" /\ pc'[t] = "adv_questions"

NoReloadMidQuestion == [][NoReloadMidQuestionStep]_vars

\* the list has been replaced while a bet of the former question was still
\* under way
ReloadedDuringBet ==
    /\ Completed("load_questions")
    /\ last.status = 200
    /\ questions = QuestionFile("normal.json")
    /\ \E t \in Threads : pc[t] \in {"bet_write", "bet_scan", "bet_flip"}

(***************************************************************************)
(* C19: the moderator is the liveness fallback.  A successful override      *)
(* turns a non-ready betting, selecting or answering phase into the same    *)
(* phase with the ready flag set, and the poll that finds that phase stores *)
(* the next phase of the question (betting and selecting are followed by    *)
(* answering, answering by Results(false)).  While the moderator keeps      *)
(* issuing polls, requestNextQuestion and the two overrides, and whatever   *)
(* the players do or fail to do, every non-ready phase is followed by its   *)
(* next phase, and the game eventually reaches GameEnding.  A non-ready     *)
(* phase is left only by the step of a successful override or of a player's *)
(* readiness flip, never by a step of a poll.                               *)
(***************************************************************************)
NonReadyPhases ==
    {BettingQBetting(FALSE), VersusQSelecting(FALSE), NormalQAnswering(FALSE),
     BettingQAnswering(FALSE), EstimationQAnswering(FALSE), VersusQAnswering(FALSE)}

MovedForward(s) ==
    CASE s[1] = "BettingQBetting" -> BettingQAnswering(FALSE)
      [] s[1] = "VersusQSelecting" -> VersusQAnswering(FALSE)
      [] OTHER -> Results(FALSE)

Overrides == {"force_question_answering", "force_question_results"}

OverrideThenPollStep ==
    /\ \A t \in Threads :
          (pc[t] = "idle" /\ last'.t = t /\ last'.status = 200
              /\ last'.req.op \in Overrides)
          => /\ current_question_state \in NonReadyPhases
             /\ current_question_state' = <<current_question_state[1], TRUE>>
    /\ \A t \in Threads :
          (pc[t] = "adv_events" /\ pc'[t] = "events_read"
              /\ loc[t].state # Results(TRUE))
          => /\ current_question_state = loc[t].state
             /\ current_question_state' = MovedForward(loc[t].state)

PollAloneKeepsPhaseStep ==
    (current_question_state \in NonReadyPhases
        /\ current_question_state' # current_question_state)
    => \E t \in Threads :
          \/ pc[t] \in {"bet_flip", "attack_flip", "answer_flip"} /\ pc'[t] = "idle"
          \/ /\ pc[t] = "idle"
             /\ last'.t = t
             /\ last'.status = 200
             /\ last'.req.op \in Overrides

ModeratorIsFallback ==
    /\ [][OverrideThenPollStep /\ PollAloneKeepsPhaseStep]_vars
    /\ \A s \in NonReadyPhases :
          (current_question_state = s) ~> (current_question_state = MovedForward(s))
    /\ <>(current_question_state = GameEnding)

\* the game has ended, a player had joined, and no settlement found a bet,
\* a selection or an answer
EndedWithoutPlayerActions ==
    /\ current_question_state = GameEnding
    /\ Len(player_data) = 1
    /\ \E i \in 1..Len(game_events) : game_events[i].event_name = "ShowResults"
    /\ \A i \in 1..Len(game_events) :
          game_events[i].event_name = "ShowResults"
          => /\ Len(game_events[i].event.previous_player_data) = 1
             /\ \A k \in 1..Len(game_events[i].event.previous_player_data) :
                   LET p == game_events[i].event.previous_player_data[k] IN
                   p.money_bet = 0 /\ p.answer = 0 /\ p.vs_player = <<>>

(***************************************************************************)
(* C20: the advancement from Results(true) to a question of the list.  The  *)
(* poll that finds Results(true) adds one to the index; when the new index  *)
(* is at most the number of questions it then sets money_bet to 0,          *)
(* vs_player to the empty string and answer to 0 for every player, leaving  *)
(* names, money and jokers as they are, appends one begin event that        *)
(* carries current_question = the new index and is named after the type of  *)
(* that question, and sets the state by that type: Normal gives             *)
(* NormalQAnswering(false), Betting gives BettingQBetting(false),           *)
(* Estimation gives EstimationQAnswering(false), Versus gives               *)
(* VersusQSelecting(false).                                                 *)
(***************************************************************************)
PhaseOfType(question_type) ==
    CASE question_type = "NormalQuestion" -> <<"NormalQAnswering", FALSE>>
      [] question_type = "BettingQuestion" -> <<"BettingQBetting", FALSE>>
      [] question_type = "EstimationQuestion" -> <<"EstimationQAnswering", FALSE>>
      [] question_type = "VersusQuestion" -> <<"VersusQSelecting", FALSE>>

BeginOfType(question_type) ==
    CASE question_type = "NormalQuestion" -> "BeginNormalQAnswering"
      [] question_type = "BettingQuestion" -> "BeginBettingQBetting"
      [] question_type = "EstimationQuestion" -> "BeginEstimationQAnswering"
      [] question_type = "VersusQuestion" -> "BeginVersusQSelecting"

\* the poll of thread t is in the Results(true) arm and the incremented
\* index names a question of the list
BeginsQuestion(t) ==
    /\ loc[t].state = <<"Results", TRUE>>
    /\ current_question <= Len(questions)

AdvancementStep ==
    \A t \in Threads :
        /\ (pc[t] = "idle" /\ pc'[t] = "adv_questions"
                /\ current_question_state = <<"Results", TRUE>>)
           => /\ current_question' = current_question + 1
              /\ UNCHANGED <<player_data, game_events, current_question_state>>
        /\ (pc[t] = "adv_questions" /\ pc'[t] = "adv_players" /\ BeginsQuestion(t))
           => UNCHANGED <<player_data, game_events, current_question,
                          current_question_state>>
        /\ (pc[t] = "adv_players" /\ pc'[t] = "adv_events" /\ BeginsQuestion(t))
           => /\ Len(player_data') = Len(player_data)
              /\ \A i \in 1..Len(player_data) :
                    /\ player_data'[i].money_bet = 0
                    /\ player_data'[i].vs_player = <<>>
                    /\ player_data'[i].answer = 0
                    /\ player_data'[i].name = player_data[i].name
                    /\ player_data'[i].money = player_data[i].money
                    /\ player_data'[i].jokers = player_data[i].jokers
              /\ UNCHANGED <<game_events, current_question, current_question_state>>
        /\ (pc[t] = "adv_events" /\ pc'[t] = "events_read" /\ BeginsQuestion(t))
           => LET type == questions[current_question].question_type IN
              /\ Len(game_events') = Len(game_events) + 1
              /\ SubSeq(game_events', 1, Len(game_events)) = game_events
              /\ game_events'[Len(game_events')].event_name = BeginOfType(type)
              /\ game_events'[Len(game_events')].event.current_question = current_question
              /\ current_question_state' = PhaseOfType(type)
              /\ \A i \in 1..Len(player_data) :
                    /\ player_data[i].money_bet = 0
                    /\ player_data[i].vs_player = <<>>
                    /\ player_data[i].answer = 0
              /\ UNCHANGED <<player_data, current_question>>

AdvancementBeginsQuestion == [][AdvancementStep]_vars

\* the second question, a betting question, has just begun; the player had
\* answered the first one correctly, and keeps the reward and the jokers
SecondQuestionBegun ==
    /\ current_question = 2
    /\ current_question_state = BettingQBetting(FALSE)
    /\ Len(game_events) = 3
    /\ game_events[3].event_name = "BeginBettingQBetting"
    /\ game_events[3].event.current_question = 2
    /\ game_events[2].event_name = "ShowResults"
    /\ Len(player_data) = 1
    /\ Len(game_events[2].event.player_data) = 1
    /\ game_events[2].event.player_data[1].answer = 2
    /\ player_data[1].answer = 0
    /\ player_data[1].money = game_events[2].event.player_data[1].money
    /\ player_data[1].money > INITIAL_MONEY
    /\ player_data[1].jokers = game_events[2].event.player_data[1].jokers
    /\ \E t \in Threads : pc[t] = "events_read"

(***************************************************************************)
(* C21: the end of the game.  The poll that finds Results(true) with an     *)
(* incremented index beyond the end of the list (an empty list included)    *)
(* appends one GameEnding event that holds the roster as it is and sets the *)
(* state to GameEnding.  In GameEnding no step appends an event, and the    *)
(* state changes only in the step of a successful set_next_question or      *)
(* load_questions, which makes it Results(false).                           *)
(***************************************************************************)
EndsGame(t) ==
    /\ pc[t] = "adv_events"
    /\ pc'[t] = "events_read"
    /\ loc[t].state = <<"Results", TRUE>>
    /\ current_question > Len(questions)

GameEndingStep ==
    /\ \A t \in Threads :
          EndsGame(t)
          => /\ Len(game_events') = Len(game_events) + 1
             /\ SubSeq(game_events', 1, Len(game_events)) = game_events
             /\ game_events'[Len(game_events')].event_name = "GameEnding"
             /\ game_events'[Len(game_events')].event = [player_data |-> player_data]
             /\ current_question_state' = <<"GameEnding">>
             /\ UNCHANGED <<player_data, current_question, questions>>
    /\ current_question_state = <<"GameEnding">>
       => /\ game_events' = game_events
          /\ current_question_state' # current_question_state
             => /\ current_question_state' = <<"Results", FALSE>>
                /\ \E t \in Threads :
                      /\ pc[t] \in {"jump_questions", "load_write"}
                      /\ last'.t = t
                      /\ last'.status = 200

GameEndingIsFinal == [][GameEndingStep]_vars

(***************************************************************************)
(* C22: the advancement from an answering phase with flag true.  The poll   *)
(* copies the roster, scores it, and appends exactly one ShowResults event  *)
(* whose previous_player_data is the roster as it was immediately before    *)
(* the scoring, whose player_data is the roster immediately after it, and   *)
(* whose correct_answer is that of the question at the current index; the   *)
(* state becomes Results(false).                                            *)
(***************************************************************************)
ReadyAnswering ==
    {<<"NormalQAnswering", TRUE>>, <<"BettingQAnswering", TRUE>>,
     <<"EstimationQAnswering", TRUE>>, <<"VersusQAnswering", TRUE>>}

ShowResultsStep ==
    \A t \in Threads :
        /\ (pc[t] = "adv_players" /\ pc'[t] = "adv_events" /\ loc[t].state \in ReadyAnswering)
           => /\ loc'[t].previous_player_data = player_data
              /\ loc'[t].player_data = player_data'
              /\ UNCHANGED <<game_events, current_question_state, current_question>>
        /\ (pc[t] = "adv_events" /\ pc'[t] = "events_read" /\ loc[t].state \in ReadyAnswering)
           => LET e == game_events'[Len(game_events')] IN
              /\ current_question_state = loc[t].state
              /\ Len(game_events') = Len(game_events) + 1
              /\ SubSeq(game_events', 1, Len(game_events)) = game_events
              /\ e.event_name = "ShowResults"
              /\ e.event.previous_player_data = loc[t].previous_player_data
              /\ e.event.player_data = player_data
              /\ e.event.correct_answer = questions[current_question].correct_answer
              /\ current_question_state' = <<"Results", FALSE>>
              /\ UNCHANGED <<player_data, current_question>>

ShowResultsEmbedsSnapshots == [][ShowResultsStep]_vars

\* a settlement that changed a balance has just been logged
ResultsShownWithReward ==
    /\ current_question_state = <<"Results", FALSE>>
    /\ Len(game_events) > 0
    /\ game_events[Len(game_events)].event_name = "ShowResults"
    /\ Len(player_data) = 1
    /\ game_events[Len(game_events)].event.player_data = player_data
    /\ Len(game_events[Len(game_events)].event.previous_player_data) = 1
    /\ game_events[Len(game_events)].event.previous_player_data[1].answer
          = game_events[Len(game_events)].event.correct_answer
    /\ game_events[Len(game_events)].event.previous_player_data[1].money
          < player_data[1].money
    /\ \E t \in Threads : pc[t] = "events_read"

(***************************************************************************)
(* C23: the readiness flip of answer_question.  A successful answer request *)
(* that found the answering phase X(false) leaves the state X(true) if      *)
(* every player of the roster has an answer >= 1 once the answer is         *)
(* written, and X(false) otherwise; and no step of an answer request ever   *)
(* changes which sub-phase the state is in.                                 *)
(***************************************************************************)
NonReadyAnswering ==
    {<<"NormalQAnswering", FALSE>>, <<"BettingQAnswering", FALSE>>,
     <<"EstimationQAnswering", FALSE>>, <<"VersusQAnswering", FALSE>>}

AnswerSetsReadyStep ==
    \A t \in Threads :
        /\ (req[t].op = "answer_question" /\ pc'[t] # pc[t])
           => current_question_state'[1] = current_question_state[1]
        /\ (pc[t] # "idle" /\ last'.t = t /\ last'.status = 200
               /\ last'.req.op = "answer_question")
           => /\ last'.state0 \in NonReadyAnswering
              /\ current_question_state' =
                    IF \A i \in 1..Len(player_data') : player_data'[i].answer >= 1
                    THEN <<last'.state0[1], TRUE>>
                    ELSE last'.state0

AnswerSetsReadyWhenAllAnswered == [][AnswerSetsReadyStep]_vars

\* the second of two players has just answered an estimation question
LastAnswerSetReady ==
    /\ current_question_state = <<"EstimationQAnswering", TRUE>>
    /\ Len(player_data) = 2
    /\ \A i \in 1..Len(player_data) : player_data[i].answer >= 1
    /\ last.t # 0
    /\ last.req.op = "answer_question"
    /\ last.status = 200

(***************************************************************************)
(* C24: the scan is linearizable with the readiness flip.  In the step in   *)
(* which bet_money stores BettingQBetting(true) every player of the roster  *)
(* has money_bet >= 1; in the step in which attack_player stores            *)
(* VersusQSelecting(true) every player has a non-empty vs_player; in the    *)
(* step in which answer_question sets the flag of an answering phase every  *)
(* player has an answer >= 1.                                               *)
(***************************************************************************)
ReadyFlipStep ==
    \A t \in Threads :
        /\ (pc[t] = "bet_flip" /\ pc'[t] = "idle"
               /\ current_question_state' = <<"BettingQBetting", TRUE>>)
           => \A i \in 1..Len(player_data) : player_data[i].money_bet >= 1
        /\ (pc[t] = "attack_flip" /\ pc'[t] = "idle"
               /\ current_question_state' = <<"VersusQSelecting", TRUE>>)
           => \A i \in 1..Len(player_data) : player_data[i].vs_player # <<>>
        /\ (pc[t] = "answer_flip" /\ pc'[t] = "idle"
               /\ current_question_state' \in ReadyAnswering)
           => \A i \in 1..Len(player_data) : player_data[i].answer >= 1

ScanLinearizableWithFlip == [][ReadyFlipStep]_vars

(***************************************************************************)
(* C25: a readiness flip never changes which phase the game is in.  The     *)
(* state becomes BettingQBetting(true) only in a step that finds            *)
(* BettingQBetting(false) or BettingQBetting(true), and becomes             *)
(* VersusQSelecting(true) only in a step that finds VersusQSelecting(false) *)
(* or VersusQSelecting(true).                                               *)
(***************************************************************************)
FlipKeepsPhaseStep ==
    /\ current_question_state' = <<"BettingQBetting", TRUE>>
       => current_question_state[1] = "BettingQBetting"
    /\ current_question_state' = <<"VersusQSelecting", TRUE>>
       => current_question_state[1] = "VersusQSelecting"

FlipKeepsPhase == [][FlipKeepsPhaseStep]_vars

(***************************************************************************)
(* C26: the moderator's overrides change only the readiness flag.           *)
(* force_question_answering succeeds in BettingQBetting(false) and          *)
(* VersusQSelecting(false), force_question_results in the four              *)
(* *Answering(false) phases, activate_next_question in Results(false) and   *)
(* Results(true); a success stores the same phase with flag true, every     *)
(* other state gets 406 Not Acceptable and is left alone; none of the three *)
(* changes the roster, the index, the list or the event log.                *)
(***************************************************************************)
OverrideOk(op, s) ==
    CASE op = "force_question_answering" ->
            s \in {<<"BettingQBetting", FALSE>>, <<"VersusQSelecting", FALSE>>}
      [] op = "force_question_results" -> s \in NonReadyAnswering
      [] op = "activate_next_question" ->
            s \in {<<"Results", FALSE>>, <<"Results", TRUE>>}

OverrideStep ==
    \A t \in Threads :
        (pc[t] = "idle" /\ last'.t = t
            /\ last'.req.op \in {"force_question_answering", "force_question_results",
                                 "activate_next_question"})
        => /\ UNCHANGED <<player_data, current_question, questions, game_events>>
           /\ IF OverrideOk(last'.req.op, current_question_state)
              THEN /\ last'.status = 200
                   /\ current_question_state' = <<current_question_state[1], TRUE>>
              ELSE /\ last'.status = 406
                   /\ current_question_state' = current_question_state

OverridesSetOnlyTheFlag == [][OverrideStep]_vars

\* forceQuestionAnswering has just been refused because the bets were
\* already complete
OverrideRefusedWhenReady ==
    /\ last.t # 0
    /\ last.req.op = "force_question_answering"
    /\ last.status = 406
    /\ current_question_state = <<"BettingQBetting", TRUE>>
    /\ Len(player_data) = 1

(***************************************************************************)
(* C27: the fifty-fifty joker.  A successful get_joker_fifty_fifty takes    *)
(* exactly one joker from one player of the requested name and changes      *)
(* nothing else, and returns two distinct indices of {1, 2, 3, 4}, neither  *)
(* of them the correct answer of the current question; when the named       *)
(* player has no joker the request fails with 406 and the roster is left    *)
(* alone; no joker count is ever below 0.                                   *)
(***************************************************************************)
JokerStep ==
    /\ \A i \in 1..Len(player_data') : player_data'[i].jokers >= 0
    /\ \A t \in Threads :
          (pc[t] = "joker_players" /\ last'.t = t)
          => LET n == last'.req.name
                 named == {i \in 1..Len(player_data) : player_data[i].name = n}
                 body == last'.body IN
             /\ last'.status \in {200, 400, 406}
             /\ last'.status = 200
                => /\ \E i \in named :
                         /\ player_data[i].jokers >= 1
                         /\ player_data' =
                               [player_data EXCEPT ![i].jokers = player_data[i].jokers - 1]
                   /\ Len(body) = 2
                   /\ body[1] # body[2]
                   /\ \A k \in 1..2 :
                         /\ body[k] \in {1, 2, 3, 4}
                         /\ body[k] # questions[current_question].correct_answer
             /\ last'.status # 200 => player_data' = player_data
             /\ (named # {} /\ \A i \in named : player_data[i].jokers = 0)
                => last'.status = 406
             /\ last'.status = 406 => \E i \in named : player_data[i].jokers = 0
             /\ last'.status = 400 <=> named = {}

JokerTakesOne == [][JokerStep]_vars

\* a joker has just been granted to one of two players, and the last joker
\* of the other one was used before
JokerGranted ==
    /\ last.t # 0
    /\ last.req.op = "get_joker_fifty_fifty"
    /\ last.status = 200
    /\ Len(player_data) = 2
    /\ player_data[1].jokers = 0
    /\ player_data[2].jokers = INITIAL_JOKERS - 1
    /\ last.req.name = player_data[2].name

(***************************************************************************)
(* C28: phase and index stay consistent.  Whenever the state is a betting,  *)
(* selecting or answering phase (flag true or false) the index names a      *)
(* question of the list, 1 <= index <= number of questions, and that        *)
(* question has the type of the phase; and always                           *)
(* 0 <= index <= number of questions + 1.                                   *)
(***************************************************************************)
TypeOfPhase(tag) ==
    CASE tag = "NormalQAnswering" -> "NormalQuestion"
      [] tag \in {"BettingQBetting", "BettingQAnswering"} -> "BettingQuestion"
      [] tag = "EstimationQAnswering" -> "EstimationQuestion"
      [] tag \in {"VersusQSelecting", "VersusQAnswering"} -> "VersusQuestion"

PhaseMatchesIndex ==
    /\ current_question >= 0
    /\ current_question <= Len(questions) + 1
    /\ current_question_state[1] \notin {"Results", "GameEnding"}
       => /\ current_question >= 1
          /\ current_question <= Len(questions)
          /\ questions[current_question].question_type
                = TypeOfPhase(current_question_state[1])

(***************************************************************************)
(* C29: get_joker_fifty_fifty never looks up a question outside the list.   *)
(* In the step in which the handler loads the index, after its phase check  *)
(* passed, the index is within 1..number of questions and is the index that *)
(* was current when the check passed; and the index it loaded is still      *)
(* within the list in the step in which it indexes the list.                *)
(***************************************************************************)
JokerLookupStep ==
    \A t \in Threads :
        /\ (pc[t] = "joker_load" /\ pc'[t] # pc[t])
           => /\ current_question >= 1
              /\ current_question <= Len(questions)
              /\ current_question = loc[t].checked_question
        /\ (pc[t] = "joker_questions" /\ pc'[t] # pc[t])
           => /\ loc[t].current_question >= 1
              /\ loc[t].current_question <= Len(questions)

JokerLooksUpCurrentQuestion == [][JokerLookupStep]_vars

(***************************************************************************)
(* C30: the event log follows the question pipeline.  An event that begins  *)
(* a question (BeginNormalQAnswering, BeginBettingQBetting,                 *)
(* BeginEstimationQAnswering, BeginVersusQSelecting) is the first event or  *)
(* comes immediately after a ShowResults or a GameEnding event, so it is    *)
(* never repeated for the same start of a question; BeginBettingQAnswering  *)
(* comes immediately after BeginBettingQBetting, BeginVersusQAnswering      *)
(* immediately after BeginVersusQSelecting, ShowResults immediately after   *)
(* the event that began the answering; and an event is appended after a     *)
(* GameEnding event only by a poll that found Results(true), which the      *)
(* state reaches again only through set_next_question or load_questions.    *)
(***************************************************************************)
QuestionBegins ==
    {"BeginNormalQAnswering", "BeginBettingQBetting", "BeginEstimationQAnswering",
     "BeginVersusQSelecting"}

AnsweringBegins ==
    {"BeginNormalQAnswering", "BeginBettingQAnswering", "BeginEstimationQAnswering",
     "BeginVersusQAnswering"}

\* the event names that may come immediately before an event of this name;
\* "" stands for the start of the log
MayPrecede(name) ==
    CASE name \in QuestionBegins -> {"", "ShowResults", "GameEnding"}
      [] name = "BeginBettingQAnswering" -> {"BeginBettingQBetting"}
      [] name = "BeginVersusQAnswering" -> {"BeginVersusQSelecting"}
      [] name = "ShowResults" -> AnsweringBegins
      [] name = "GameEnding" -> {"", "ShowResults", "GameEnding"}

PipelineStep ==
    /\ \A i \in 1..Len(game_events') :
          (IF i = 1 THEN "" ELSE game_events'[i - 1].event_name)
             \in MayPrecede(game_events'[i].event_name)
    /\ (Len(game_events') > Len(game_events) /\ Len(game_events) > 0
           /\ game_events[Len(game_events)].event_name = "GameEnding")
       => \E t \in Threads :
             /\ pc[t] = "adv_events"
             /\ loc[t].state = <<"Results", TRUE>>
             /\ current_question_state = <<"Results", TRUE>>

LogFollowsPipeline == [][PipelineStep]_vars

(***************************************************************************)
(* C31: in the estimation settlement a player who gave no answer is scored  *)
(* as having estimated 0.  Such a player's distance is the correct value    *)
(* itself; when no player of the roster is nearer than that, the player     *)
(* gains the estimation reward and nothing else of the player changes; in   *)
(* particular, when nobody has answered, every player gains the reward.     *)
(***************************************************************************)
Nearer(answer, correct_answer) ==
    (IF answer >= correct_answer THEN answer - correct_answer
     ELSE correct_answer - answer) < correct_answer

UnansweredScoredAsZeroStep ==
    \A t \in Threads :
        Settles(t, <<"EstimationQAnswering", TRUE>>) =>
            LET correct == questions[current_question].correct_answer IN
            /\ Len(player_data') = Len(player_data)
            /\ \A p \in 1..Len(player_data) :
                  (/\ player_data[p].answer = 0
                   /\ \A q \in 1..Len(player_data) :
                         ~Nearer(player_data[q].answer, correct))
                  => player_data'[p] =
                        [player_data[p] EXCEPT
                            !.money = player_data[p].money + ESTIMATION_Q_MONEY]
            /\ (\A q \in 1..Len(player_data) : player_data[q].answer = 0)
               => \A p \in 1..Len(player_data) :
                     player_data'[p].money = player_data[p].money + ESTIMATION_Q_MONEY

UnansweredScoredAsZero == [][UnansweredScoredAsZeroStep]_vars

\* results were forced before any of three players answered, and each of
\* them holds the initial money plus the reward
AllUnansweredRewarded ==
    /\ current_question_state = <<"Results", FALSE>>
    /\ Len(game_events) = 2
    /\ game_events[2].event_name = "ShowResults"
    /\ Len(player_data) = 3
    /\ Len(game_events[2].event.previous_player_data) = 3
    /\ \A p \in 1..3 :
          /\ game_events[2].event.previous_player_data[p].answer = 0
          /\ player_data[p].money = INITIAL_MONEY + ESTIMATION_Q_MONEY

====
